---- MODULE Spec2Model ----
(***************************************************************************)
(* Trust-region nonlinear least-squares driver of DESC                     *)
(* (desc/optimize/_least_squares.py) with its derivative model             *)
(* (desc/optimize/derivative.py, QRJacobian).                              *)
(*                                                                         *)
(* The problem is scalar (n = m = 1): vectors are single reals, the 2-norm *)
(* and the infinity norm are the absolute value.  Reals are exact          *)
(* rationals <<num, den>> in lowest terms with den > 0; <<1, 0>> is        *)
(* numpy's +inf.  The collaborators are external and pure: fun(x) is any   *)
(* residual and jac(x) any Jacobian of a small set, the same at every      *)
(* evaluation of one point, and grad(x) = jac(x)^T fun(x) is the gradient  *)
(* of 1/2 |fun|^2.                                                         *)
(*                                                                         *)
(* Spec is one call of least_squares.  DerivSpec is a QRJacobian or a      *)
(* CholeskyHessian used on its own through update and recompute.  IOSpec   *)
(* is a reader and a writer of desc/io/core_io.py and the files they are   *)
(* built on.                                                               *)
(***************************************************************************)
EXTENDS Integers, Sequences, FiniteSets, TLC

\* ------------------------------------------------------------------ reals

Abs(i) == IF i < 0 THEN -i ELSE i

RECURSIVE Gcd(_, _)
Gcd(a, b) == IF b = 0 THEN a ELSE Gcd(b, a % b)

\* the rational n/d (d # 0) in lowest terms with a positive denominator
Rat(n, d) ==
    LET k == Gcd(Abs(n), Abs(d))
        s == IF d < 0 THEN -1 ELSE 1
    IN  <<s * (n \div k), s * (d \div k)>>

R(i) == <<i, 1>>
Inf == <<1, 0>>
Zero == R(0)
One == R(1)

RAdd(a, b) == Rat(a[1] * b[2] + b[1] * a[2], a[2] * b[2])
RNeg(a) == <<-a[1], a[2]>>
RSub(a, b) == RAdd(a, RNeg(b))
RMul(a, b) == Rat(a[1] * b[1], a[2] * b[2])
RDiv(a, b) == Rat(a[1] * b[2], a[2] * b[1])
RAbs(a) == <<Abs(a[1]), a[2]>>
RLt(a, b) == a[1] * b[2] < b[1] * a[2]
RLe(a, b) == a[1] * b[2] <= b[1] * a[2]
RMin(a, b) == IF RLt(b, a) THEN b ELSE a
RMax(a, b) == IF RLt(a, b) THEN b ELSE a
RSign(a) == IF a[1] < 0 THEN R(-1) ELSE IF a[1] > 0 THEN One ELSE Zero

None == <<>>

\* ------------------------------------------------------------ model bounds

\* the model follows a run for at most MaxEvals evaluations of fun
MaxEvals == 4

\* values the external collaborators may return: residuals fun(x) and
\* Jacobians jac(x) (0 is a singular Jacobian)
FVals == {R(0), R(1), R(2)}
JVals == {R(0), R(1), R(2)}

\* the tolerance used when ftol, xtol or gtol is not None
Tol == Rat(1, 10)

\* --------------------------------------------------------------- the state

VARIABLES
    cfg,            \* the arguments of least_squares, as passed
    options,        \* the caller's options dictionary (popped in place)
    pc,             \* position: start, head, solve, trial, decide, done, raised
    exception,      \* the exception that left least_squares, or "none"
    set,            \* the settings read from the arguments and options
    x, f, g, cost,  \* the iterate, its residual, gradient and cost
    nfev, ngev, njev, iteration,
    jac,            \* the QRJacobian model
    scale, scale_inv,
    g_norm, x_norm, step_norm, dg_norm,
    actual_reduction, ratio,
    trust_radius,
    step_h, hits_boundary,      \* the subproblem's answer
    x_new, f_new, cost_new,     \* the trial point
    result,         \* the local "result": unbound until a termination path binds it
    funTab, jacTab, \* the residual and the Jacobian of the problem, per point seen
    nsolve,         \* history: calls of the subproblem solver
    nupdate,        \* history: calls of jac.update
    nrecompute,     \* history: calls of jac.recompute, hence of the external jac
    ntrial,         \* history: trial points at which fun was evaluated
    naccept,        \* history: trial steps accepted
    pass,           \* history: the state held when the current loop pass began
    dm,             \* a derivative model used on its own: QRJacobian or CholeskyHessian
    din,            \* history: the last operation applied to dm, with its arguments
    ext,            \* history: calls dm has made of its Jacobian/Hessian function
    nops,           \* history: operations applied to dm
    ios,            \* the IO readers/writers: target, base, _close_base_
    files           \* the files: open or closed, and how often closed

\* the variables of a least_squares run
lvars == <<cfg, options, pc, exception, set, x, f, g, cost, nfev, ngev, njev,
          iteration, jac, scale, scale_inv, g_norm, x_norm, step_norm, dg_norm,
          actual_reduction, ratio, trust_radius, step_h, hits_boundary,
          x_new, f_new, cost_new, result, funTab, jacTab, nsolve, nupdate,
          nrecompute, ntrial, naccept, pass>>
\* the variables of a derivative model used on its own, and of the IO objects
dvars == <<dm, din, ext, nops>>
iovars == <<ios, files>>
vars == <<lvars, dvars, iovars>>

\* no derivative model is used on its own
NoModel == [kind |-> "none"]
NoOp == [op |-> "none"]
DerivIdle == dm = NoModel /\ din = NoOp /\ ext = 0 /\ nops = 0

\* no IO object exists
IOIdle == ios = <<>> /\ files = <<>>

\* a pure collaborator returns at a point it has seen what it returned before
Returns(tab, at, vals) == IF at \in DOMAIN tab THEN {tab[at]} ELSE vals
Learn(tab, at, v) == (at :> v) @@ tab

\* grad(x), the gradient of 1/2 |fun(x)|^2, from the Jacobian and the residual at x
Grad(J, fx) == RMul(J, fx)

\* ------------------------------------------- QRJacobian (derivative.py)

\* qr(J, mode="economic") of a 1x1 matrix: Q = [1], R = [J]
Qr(J) == [Q |-> One, R |-> J]

\* QRJacobian.__init__: init_jac is None, <<"auto">> or a matrix; jacfun says
\* whether a Jacobian function was given
QRJacobianInit(init_jac, jacfun) ==
    IF init_jac \in {None, <<"auto">>} /\ ~jacfun
    THEN [Q |-> One, R |-> One, initialized |-> TRUE,
          initialization |-> "eye", jacfun |-> jacfun]
    ELSE IF init_jac = None /\ jacfun
    THEN [Q |-> One, R |-> One, initialized |-> FALSE,
          initialization |-> "jacfun", jacfun |-> jacfun]
    ELSE [Q |-> Qr(init_jac).Q, R |-> Qr(init_jac).R, initialized |-> TRUE,
          initialization |-> "init_jac", jacfun |-> jacfun]

\* QRJacobian.recompute, J being what jacfun returned at x
Recompute(j, J) == [j EXCEPT !.Q = Qr(J).Q, !.R = Qr(J).R]

GetMatrix(j) == RMul(j.Q, j.R)
Dot(j, v) == RMul(j.Q, RMul(j.R, v))
Quadratic(j, u, v) == RMul(RMul(j.R, u), RMul(j.R, v))

\* solve_triangular(R, y) fails on a zero diagonal entry
Singular(j) == j.R = Zero
Solve(j, b) == RDiv(RMul(j.Q, b), j.R)

\* QRJacobian._broyden_update: A + u v^T with u = (delta_f - A delta_x)/|delta_x|^2
\* and v = delta_x, refactorized
BroydenUpdate(j, delta_x, delta_f) ==
    IF delta_x = Zero \/ delta_f = Zero THEN j
    ELSE LET u == RDiv(RSub(delta_f, Dot(j, delta_x)), RMul(delta_x, delta_x))
             A == RAdd(GetMatrix(j), RMul(u, delta_x))
         IN  [j EXCEPT !.Q = Qr(A).Q, !.R = Qr(A).R]

\* does QRJacobian.update call jacfun (through recompute)?
UpdateRecomputes(j, delta_x, delta_f) ==
    /\ delta_x # Zero
    /\ delta_f # Zero
    /\ ~j.initialized
    /\ j.initialization = "jacfun"

\* the deferred initialization done before the differences are looked at
Update_RecomputeFirst(j, xn, xo, fn, fo, J) ==
    LET delta_x == RSub(xn, xo)
        delta_f == RSub(fn, fo)
        j1 == IF ~j.initialized /\ j.initialization = "jacfun"
              THEN Recompute(j, J) ELSE j
    IN  IF delta_x = Zero \/ delta_f = Zero THEN j1
        ELSE BroydenUpdate(j1, delta_x, delta_f)

\* QRJacobian.update, J being what jacfun returns at x_new if it is called
Update(j, xn, xo, fn, fo, J) ==
    LET delta_x == RSub(xn, xo)
        delta_f == RSub(fn, fo)
    IN  IF delta_x = Zero \/ delta_f = Zero THEN j
        ELSE BroydenUpdate(IF UpdateRecomputes(j, delta_x, delta_f)
                           THEN Recompute(j, J) ELSE j,
                           delta_x, delta_f)

\* compute_jac_scale without the maximum with the previous scale_inv
ComputeJacScale_NoMaximum(A, prev_scale_inv) ==
    LET n0 == RAbs(A)
        n1 == IF n0 = Zero THEN One ELSE n0
    IN  <<RDiv(One, n1), n1>>

\* compute_jac_scale on the 1x1 factor R: <<scale, scale_inv>>
ComputeJacScale(A, prev_scale_inv) ==
    LET n0 == RAbs(A)
        n1 == IF n0 = Zero THEN One ELSE n0
        si == IF prev_scale_inv = None THEN n1 ELSE RMax(n1, prev_scale_inv)
    IN  <<RDiv(One, si), si>>

GetScale(j, prev_scale_inv) == ComputeJacScale(j.R, prev_scale_inv)

\* --------------------------- trust-region subproblems (tr_subproblems.py)

\* solve_trust_region_dogleg(g, jac, scale, trust_radius, f), the model being
\* non-singular; everything is in scaled coordinates (x = scale * x_h); the
\* Gauss-Newton step p_gn is the unconstrained minimizer of the quadratic
\* model g_h p + 1/2 |A scale p|^2
Dogleg(gr, j, sc, radius) ==
    LET g_h  == RMul(sc, gr)
        p_gn == RNeg(RDiv(g_h, Quadratic(j, sc, sc)))
        gBg  == Quadratic(j, RMul(sc, g_h), RMul(sc, g_h))
        p_sd == RNeg(RMul(RDiv(RMul(g_h, g_h), gBg), g_h))
    IN  IF RLe(RAbs(p_gn), radius)
        THEN [step_h |-> p_gn, hits_boundary |-> FALSE]
        ELSE IF RLe(radius, RAbs(p_sd))
        THEN [step_h |-> RMul(p_sd, RDiv(radius, RAbs(p_sd))), hits_boundary |-> TRUE]
        ELSE [step_h |-> RMul(RSign(p_gn), radius), hits_boundary |-> TRUE]

\* solve_trust_region_2d_subspace: the minimizer of the quadratic model
\* g_h p + 1/2 |A scale p|^2 over span{g, p_gn} (here the line) within the ball
Subspace2d(gr, j, sc, radius) ==
    LET g_h == RMul(sc, gr)
        B   == Quadratic(j, sc, sc)
        p   == RNeg(RDiv(g_h, B))
    IN  IF RLt(RAbs(p), radius)
        THEN [step_h |-> p, hits_boundary |-> FALSE]
        ELSE [step_h |-> RMul(RSign(p), radius), hits_boundary |-> TRUE]

Subproblem(method, gr, j, sc, radius) ==
    IF method = "dogleg" THEN Dogleg(gr, j, sc, radius)
    ELSE Subspace2d(gr, j, sc, radius)

\* ------------------------------------------------------------ utils.py

\* evaluate_quadratic_form(step_h, cost, g, jac, scale): the quadratic model
\* cost + g.s + 1/2 |A s|^2 at s = scale * step_h
EvaluateQuadraticForm(sh, c, gr, j, sc) ==
    LET s == RMul(sc, sh)
    IN  RAdd(c, RAdd(RMul(gr, s), RMul(Rat(1, 2), Quadratic(j, s, s))))

\* the ratio of update_tr_radius: actual/predicted, and 0 when nothing is predicted
ReductionRatio(ared, pred) ==
    IF RLt(Zero, pred) THEN RDiv(ared, pred) ELSE Zero

\* update_tr_radius: <<trust_radius, ratio>>
UpdateTrRadius(radius, ared, pred, hits, max_tr, min_tr, inc_thr, inc_ratio, dec_thr, dec_ratio) ==
    LET rt == ReductionRatio(ared, pred)
    IN  IF RLt(rt, dec_thr)
        THEN <<RMax(min_tr, RMul(dec_ratio, radius)), rt>>
        ELSE IF RLt(inc_thr, rt) /\ hits
        THEN <<RMin(max_tr, RMul(inc_ratio, radius)), rt>>
        ELSE <<radius, rt>>

\* a budget is exceeded once the count has reached it (maxiter = 0 stops at nit = 0)
Exceeds(count, max) == count >= max

\* the model/actual agreement that check_termination asks of an ftol success
AdequateAgreement(rt) == RLt(Rat(1, 4), rt)

FtolSatisfied(dF, F, rt, ftol) ==
    ftol # None /\ RLt(dF, RMul(ftol, F)) /\ AdequateAgreement(rt)
XtolSatisfied(dx_norm, xn, xtol) ==
    xtol # None /\ RLt(dx_norm, RMul(xtol, RAdd(xtol, xn)))
GtolSatisfied(gn, gtol) ==
    gtol # None /\ RLt(gn, gtol)

\* check_termination: <<success, message>>; the message names the one reason
CheckTermination(dF, F, dx_norm, xn, gn, rt, ftol, xtol, gtol, it, maxit, nf, max_nf, ng, max_ng, nj, max_nj) ==
    IF FtolSatisfied(dF, F, rt, ftol) THEN <<"True", "ftol">>
    ELSE IF XtolSatisfied(dx_norm, xn, xtol) THEN <<"True", "xtol">>
    ELSE IF GtolSatisfied(gn, gtol) THEN <<"True", "gtol">>
    ELSE IF Exceeds(it, maxit) THEN <<"False", "maxiter">>
    ELSE IF Exceeds(nf, max_nf) THEN <<"False", "max_nfev">>
    ELSE IF Exceeds(ng, max_ng) THEN <<"False", "max_ngev">>
    ELSE IF Exceeds(nj, max_nj) THEN <<"False", "max_njev">>
    ELSE <<"None", "None">>

\* ------------------------------------------ least_squares: the arguments

\* n = x0.size
Size == 1

\* options.pop(key, default)
Pop(d, key, default) == IF key \in DOMAIN d THEN d[key] ELSE default
Without(d, keys) == [k \in DOMAIN d \ keys |-> d[k]]

\* the keys popped before the jac argument is looked at (lines 137-149) and
\* those popped after (lines 189-195)
FirstKeys == {"max_nfev", "max_ngev", "max_njev", "gnorm_ord", "xnorm_ord",
              "step_accept_threshold", "jac_recompute_interval", "ga_fd_step",
              "ga_accept_threshold", "return_all", "return_tr"}
TrustKeys == {"initial_trust_radius", "max_trust_radius", "min_trust_radius",
              "tr_increase_threshold", "tr_decrease_threshold",
              "tr_increase_ratio", "tr_decrease_ratio"}

ValidMethod(c) == c.method \in {"dogleg", "subspace"}
Callable(c) == c.jac = "callable"
\* a jac that is not 'broyden' taken for a callable (the else branch left out)
ValidJac_AnyValue(c) == TRUE

\* lines 158-178
ValidJac(c) == c.jac \in {"callable", "broyden"}

\* maxiter = 0 taken for a missing maxiter (maxiter = maxiter or n * 100)
MaxIter_ZeroAsNone(c) ==
    IF c.maxiter = None \/ c.maxiter[1] = 0 THEN Size * 100 ELSE c.maxiter[1]

\* lines 135-136
MaxIter(c) == IF c.maxiter = None THEN Size * 100 ELSE c.maxiter[1]

\* a jac_recompute_interval is a number (np.size 1) or a list of iterations
ScalarInterval(k) == [scalar |-> TRUE, v |-> {k}]
ListInterval(S) == [scalar |-> FALSE, v |-> S]
Freq(i) == CHOOSE k \in i.v : TRUE

\* line 151: a list of one iteration has np.size 1, and comparing a list
\* with 0 raises TypeError
IntervalTypeError(freq) == ~freq.scalar /\ Cardinality(freq.v) = 1

\* the schedule computed without looking at whether jac is callable
JacRecomputeIters_IgnoresCallable(freq, callable, maxit) ==
    IF freq.scalar /\ Freq(freq) > 0
    THEN {i \in 1..(maxit - 1) : (i - 1) % Freq(freq) = 0}
    ELSE IF freq.scalar THEN {}
    ELSE freq.v

\* lines 151-156: the iterations at whose loop pass the Jacobian is recomputed
JacRecomputeIters(freq, callable, maxit) ==
    IF freq.scalar /\ Freq(freq) > 0 /\ callable
    THEN {i \in 1..(maxit - 1) : (i - 1) % Freq(freq) = 0}
    ELSE IF freq.scalar \/ ~callable THEN {}
    ELSE freq.v

\* lines 158-178: the derivative model built from the jac argument
BuildJac(c) ==
    IF c.jac = "broyden"
    THEN QRJacobianInit(IF c.init_jac = None THEN <<"auto">> ELSE c.init_jac, FALSE)
    ELSE QRJacobianInit(c.init_jac, TRUE)

JacScale(c) == c.x_scale \in {<<"jac">>, <<"auto">>}

\* lines 180-184: <<scale, scale_inv>>
InitialScale(c, j) ==
    IF JacScale(c) THEN GetScale(j, None) ELSE <<c.x_scale, RDiv(One, c.x_scale)>>

\* line 189: the radius before the zero test of line 197
FirstTrustRadius(d, x0, si) == Pop(d, "initial_trust_radius", RAbs(RMul(x0, si)))
\* line 190
MaxTrustRadius(d, x0, si) ==
    Pop(d, "max_trust_radius", RMul(FirstTrustRadius(d, x0, si), R(1000)))
\* lines 197-198
InitialTrustRadius(d, x0, si) ==
    IF FirstTrustRadius(d, x0, si) = Zero THEN One ELSE FirstTrustRadius(d, x0, si)

\* lines 143-145
RecomputeInterval(c, d) ==
    Pop(d, "jac_recompute_interval", ScalarInterval(IF Callable(c) THEN 1 ELSE 0))

\* the settings least_squares reads from its arguments and options
Settings(c, d, x0, si) ==
    LET maxit == MaxIter(c)
        max_nf == Pop(d, "max_nfev", maxit)
    IN  [maxiter |-> maxit,
         max_nfev |-> max_nf,
         max_ngev |-> Pop(d, "max_ngev", max_nf),
         max_njev |-> Pop(d, "max_njev", max_nf),
         step_accept_threshold |-> Pop(d, "step_accept_threshold", Rat(15, 100)),
         jac_recompute_iters |->
             JacRecomputeIters(RecomputeInterval(c, d), Callable(c), maxit),
         jac_scale |-> JacScale(c),
         max_trust_radius |-> MaxTrustRadius(d, x0, si),
         min_trust_radius |-> Pop(d, "min_trust_radius", Zero),
         tr_increase_threshold |-> Pop(d, "tr_increase_threshold", Rat(75, 100)),
         tr_decrease_threshold |-> Pop(d, "tr_decrease_threshold", Rat(25, 100)),
         tr_increase_ratio |-> Pop(d, "tr_increase_ratio", R(2)),
         tr_decrease_ratio |-> Pop(d, "tr_decrease_ratio", Rat(25, 100))]

NoSettings == [maxiter |-> 0]
Unbound == [unbound |-> TRUE]
Bound(r) == "unbound" \notin DOMAIN r
NoPass == [iteration |-> -1]

\* --------------------------------------------- least_squares: the results

\* lines 249-262: the record built when check_termination ends the run
TerminationResult(success, message, j, nj) ==
    [x |-> x, success |-> success, cost |-> cost, fun |-> f, grad |-> g,
     jac |-> GetMatrix(j), optimality |-> g_norm, nfev |-> nfev, ngev |-> ngev,
     njev |-> nj, nit |-> iteration, message |-> message]

\* the LinAlgError record counting the failed pass as an iteration
ErrResult_CountsPass ==
    [x |-> x, success |-> "False", cost |-> cost, fun |-> f, grad |-> g,
     hess |-> GetMatrix(jac), optimality |-> g_norm, nfev |-> nfev, ngev |-> ngev,
     njev |-> njev, nit |-> iteration + 1, message |-> "err"]

\* lines 273-286: the record built when the subproblem raises LinAlgError
ErrResult ==
    [x |-> x, success |-> "False", cost |-> cost, fun |-> f, grad |-> g,
     hess |-> GetMatrix(jac), optimality |-> g_norm, nfev |-> nfev, ngev |-> ngev,
     njev |-> njev, nit |-> iteration, message |-> "err"]

\* lines 372-385: the record built when the callback asks to stop
CallbackResult(xk, fk, ck, gk, gn, j, ng) ==
    [x |-> xk, success |-> "None", cost |-> ck, fun |-> fk, grad |-> gk,
     jac |-> GetMatrix(j), optimality |-> gn, nfev |-> nfev, ngev |-> ng,
     njev |-> njev, nit |-> iteration, message |-> "callback"]

\* the run ended on a failure only (if success is False)
Terminates_OnFailureOnly(success) == success = "False"
\* the run ended at every check (the test of success left out)
Terminates_Always(success) == TRUE
\* the run ended on a success only (if success)
Terminates_OnSuccess(success) == success = "True"

\* line 248
Terminates(success) == success # "None"

\* the update made when this iteration, not the next, has no recompute
UpdateDue_ThisIteration(it, iters) == it \notin iters

\* line 359: no update when the next iteration recomputes the Jacobian
UpdateDue(it, iters) == it + 1 \notin iters

\* the evaluation of fun at the trial point left uncounted
NfevAfterTrial_NotCounted(nf) == nf

\* lines 321-323: f_new = fun(x_new); nfev += 1
NfevAfterTrial(nf) == nf + 1

\* the gradient evaluation of an accepted step left uncounted
NgevAfterCommit_NotCounted(ng) == ng

\* lines 352-353: g = grad(x); ngev += 1
NgevAfterCommit(ng) == ng + 1

\* the acceptance test with the comparison turned round
StepAccepted_Inverted(rt, threshold) == RLt(rt, threshold)
\* the acceptance test with >= for >
StepAccepted_OrEqual(rt, threshold) == RLe(threshold, rt)

\* line 345
StepAccepted(rt, threshold) == RLt(threshold, rt)

\* ------------------------------------------------------------ the actions

\* what fun may return at point at: anything for a general problem (the same
\* as before at a point seen before), A * at - b for the linear problem <<A, b>>
FunAt(at) ==
    IF cfg.problem = None THEN Returns(funTab, at, FVals)
    ELSE {RSub(RMul(cfg.problem[1], at), cfg.problem[2])}

\* what the Jacobian of fun is at point at
JacAt(at) ==
    IF cfg.problem = None THEN Returns(jacTab, at, JVals)
    ELSE {cfg.problem[1]}

Raise(e) ==
    /\ pc' = "raised"
    /\ exception' = e

\* lines 111-218: the first evaluations, the options, the model, the radius
Start ==
    /\ pc = "start"
    /\ \E f0 \in FunAt(cfg.x0), J0 \in JacAt(cfg.x0) :
        LET g0 == Grad(J0, f0)
            j0 == BuildJac(cfg)
            sc == InitialScale(cfg, j0)
            known == FirstKeys \cup TrustKeys
        IN  /\ x' = cfg.x0
            /\ f' = f0
            /\ g' = g0
            /\ nfev' = 1
            /\ ngev' = 1
            /\ funTab' = Learn(funTab, cfg.x0, f0)
            /\ jacTab' = Learn(jacTab, cfg.x0, J0)
            /\ IF ~ValidMethod(cfg)
               THEN /\ Raise("ValueError")
                    /\ UNCHANGED <<options, cost, set, jac, scale, scale_inv, g_norm,
                                   x_norm, trust_radius>>
               ELSE IF IntervalTypeError(RecomputeInterval(cfg, options))
               THEN /\ Raise("TypeError")
                    /\ options' = Without(options, FirstKeys)
                    /\ cost' = RMul(Rat(1, 2), RMul(f0, f0))
                    /\ UNCHANGED <<set, jac, scale, scale_inv, g_norm, x_norm,
                                   trust_radius>>
               ELSE IF ~ValidJac(cfg)
               THEN /\ Raise("ValueError")
                    /\ options' = Without(options, FirstKeys)
                    /\ cost' = RMul(Rat(1, 2), RMul(f0, f0))
                    /\ UNCHANGED <<set, jac, scale, scale_inv, g_norm, x_norm,
                                   trust_radius>>
               ELSE /\ options' = Without(options, known)
                    /\ cost' = RMul(Rat(1, 2), RMul(f0, f0))
                    /\ set' = Settings(cfg, options, cfg.x0, sc[2])
                    /\ jac' = j0
                    /\ scale' = sc[1]
                    /\ scale_inv' = sc[2]
                    /\ g_norm' = RAbs(g0)
                    /\ x_norm' = RAbs(cfg.x0)
                    /\ trust_radius' = InitialTrustRadius(options, cfg.x0, sc[2])
                    /\ IF DOMAIN options \subseteq known
                       THEN pc' = "head" /\ UNCHANGED exception
                       ELSE Raise("ValueError")
    /\ UNCHANGED <<cfg, njev, iteration, step_norm, dg_norm, actual_reduction, ratio,
                   step_h, hits_boundary, x_new, f_new, cost_new, result, nsolve,
                   nupdate, nrecompute, ntrial, naccept, pass>>
    /\ UNCHANGED <<dvars, iovars>>

\* the state a loop pass starts from
Snapshot ==
    [x |-> x, f |-> f, g |-> g, cost |-> cost, jac |-> jac, scale |-> scale,
     scale_inv |-> scale_inv, iteration |-> iteration, trust_radius |-> trust_radius,
     nfev |-> nfev, ngev |-> ngev, njev |-> njev]

\* lines 222-263: the scheduled recompute and the termination check
LoopHead ==
    /\ pc = "head"
    /\ pass' = Snapshot
    /\ LET due == iteration \in set.jac_recompute_iters
            j1 == IF due THEN Recompute(jac, jacTab[x]) ELSE jac
            nj == IF due THEN njev + 1 ELSE njev
            sc == IF due /\ set.jac_scale THEN GetScale(j1, scale_inv)
                  ELSE <<scale, scale_inv>>
            term == CheckTermination(actual_reduction, cost, step_norm, x_norm,
                        g_norm, ratio, cfg.ftol, cfg.xtol, cfg.gtol, iteration,
                        set.maxiter, nfev, set.max_nfev, ngev, set.max_ngev, nj,
                        set.max_njev)
        IN  /\ jac' = j1
            /\ njev' = nj
            /\ nrecompute' = IF due THEN nrecompute + 1 ELSE nrecompute
            /\ scale' = sc[1]
            /\ scale_inv' = sc[2]
            /\ IF Terminates(term[1])
               THEN /\ result' = TerminationResult(term[1], term[2], j1, nj)
                    /\ pc' = "done"
               ELSE /\ pc' = "solve"
                    /\ UNCHANGED result
    /\ UNCHANGED <<cfg, options, exception, set, x, f, g, cost, nfev, ngev, iteration,
                   g_norm, x_norm, step_norm, dg_norm, actual_reduction, ratio,
                   trust_radius, step_h, hits_boundary, x_new, f_new, cost_new,
                   funTab, jacTab, nsolve, nupdate, ntrial, naccept>>
    /\ UNCHANGED <<dvars, iovars>>

\* lines 265-287: the subproblem solve; a LinAlgError ends the run
SolveSubproblem ==
    /\ pc = "solve"
    /\ nfev < MaxEvals
    /\ nsolve' = nsolve + 1
    /\ IF Singular(jac)
       THEN /\ result' = ErrResult
            /\ pc' = "done"
            /\ UNCHANGED <<step_h, hits_boundary>>
       ELSE LET sub == Subproblem(cfg.method, g, jac, scale, trust_radius)
            IN  /\ step_h' = sub.step_h
                /\ hits_boundary' = sub.hits_boundary
                /\ pc' = "trial"
                /\ UNCHANGED result
    /\ UNCHANGED <<cfg, options, exception, set, x, f, g, cost, nfev, ngev, njev,
                   iteration, jac, scale, scale_inv, g_norm, x_norm, step_norm,
                   dg_norm, actual_reduction, ratio, trust_radius, x_new, f_new,
                   cost_new, funTab, jacTab, nupdate, nrecompute, ntrial, naccept, pass>>
    /\ UNCHANGED <<dvars, iovars>>

\* lines 289-343 (geodesic acceleration off): the predicted reduction, the
\* trial evaluation of fun and the trust-radius update
TrialStep ==
    /\ pc = "trial"
    /\ LET predicted_reduction ==
               RSub(cost, EvaluateQuadraticForm(step_h, cost, g, jac, scale))
           step == RMul(scale, step_h)
           xn == RAdd(x, step)
       IN  \E fn \in FunAt(xn) :
            LET cn == RMul(Rat(1, 2), RMul(fn, fn))
                ared == RSub(cost, cn)
                upd == UpdateTrRadius(trust_radius, ared, predicted_reduction,
                           hits_boundary, set.max_trust_radius,
                           set.min_trust_radius, set.tr_increase_threshold,
                           set.tr_increase_ratio, set.tr_decrease_threshold,
                           set.tr_decrease_ratio)
            IN  /\ step_norm' = RAbs(step)
                /\ x_new' = xn
                /\ f_new' = fn
                /\ cost_new' = cn
                /\ funTab' = Learn(funTab, xn, fn)
                /\ nfev' = NfevAfterTrial(nfev)
                /\ ntrial' = ntrial + 1
                /\ actual_reduction' = ared
                /\ trust_radius' = upd[1]
                /\ ratio' = upd[2]
    /\ pc' = "decide"
    /\ UNCHANGED <<cfg, options, exception, set, x, f, g, cost, ngev, njev, iteration,
                   jac, scale, scale_inv, g_norm, x_norm, dg_norm, step_h,
                   hits_boundary, result, jacTab, nsolve, nupdate, nrecompute, naccept,
                   pass>>
    /\ UNCHANGED <<dvars, iovars>>

\* lines 345-391: an accepted step is committed, the model updated, the
\* callback asked; a rejected one changes nothing
AcceptOrReject ==
    /\ pc = "decide"
    /\ IF StepAccepted(ratio, set.step_accept_threshold)
       THEN \E J \in JacAt(x_new), stop \in BOOLEAN :
            LET gn == Grad(J, f_new)
                updating == UpdateDue(iteration, set.jac_recompute_iters)
                j1 == IF updating THEN Update(jac, x_new, x, f_new, f, J) ELSE jac
                sc == IF set.jac_scale THEN GetScale(j1, scale_inv)
                      ELSE <<scale, scale_inv>>
            IN  /\ x' = x_new
                /\ f' = f_new
                /\ cost' = cost_new
                /\ g' = gn
                /\ ngev' = NgevAfterCommit(ngev)
                /\ naccept' = naccept + 1
                /\ dg_norm' = RAbs(RSub(gn, g))
                /\ g_norm' = RAbs(gn)
                /\ x_norm' = RAbs(x_new)
                /\ jac' = j1
                /\ nupdate' = IF updating THEN nupdate + 1 ELSE nupdate
                /\ nrecompute' = IF updating /\ UpdateRecomputes(jac, RSub(x_new, x), RSub(f_new, f))
                                  THEN nrecompute + 1 ELSE nrecompute
                /\ jacTab' = Learn(jacTab, x_new, J)
                /\ scale' = sc[1]
                /\ scale_inv' = sc[2]
                /\ IF cfg.callback /\ ~Bound(result)
                   THEN /\ Raise("UnboundLocalError")
                        /\ UNCHANGED <<result, iteration>>
                   ELSE IF cfg.callback /\ stop
                   THEN /\ result' = CallbackResult(x_new, f_new, cost_new, gn,
                                                    RAbs(gn), j1, NgevAfterCommit(ngev))
                        /\ pc' = "done"
                        /\ UNCHANGED <<exception, iteration>>
                   ELSE /\ iteration' = iteration + 1
                        /\ pc' = "head"
                        /\ UNCHANGED <<exception, result>>
       ELSE /\ pc' = "head"
            /\ UNCHANGED <<x, f, cost, g, ngev, dg_norm, g_norm, x_norm, jac,
                           nupdate, nrecompute, naccept, jacTab, scale, scale_inv, exception, result,
                           iteration>>
    /\ UNCHANGED <<cfg, options, set, nfev, njev, step_norm, actual_reduction, ratio,
                   trust_radius, step_h, hits_boundary, x_new, f_new, cost_new,
                   funTab, nsolve, ntrial, pass>>
    /\ UNCHANGED <<dvars, iovars>>

\* ------------------------------------------------------- the specification

NoOptions == [k \in {} |-> 0]

\* the arguments used when a call names nothing else (jac has no default: a
\* Jacobian function is passed)
Default ==
    [x0 |-> R(2), method |-> "dogleg", jac |-> "callable", init_jac |-> None,
     x_scale |-> One, ftol |-> Tol, xtol |-> Tol, gtol |-> Tol, maxiter |-> None,
     callback |-> FALSE, options |-> NoOptions, problem |-> None]

X0s == {R(0), R(2)}
Tols == {None, Tol}

\* calls that vary the tolerances and the iteration budget
BudgetCalls ==
    {[Default EXCEPT !.x0 = x00, !.ftol = ft, !.xtol = xt, !.gtol = gt, !.maxiter = mi] :
        x00 \in X0s, ft \in Tols, xt \in Tols, gt \in Tols,
        mi \in {None, <<0>>, <<1>>, <<3>>}}

\* calls that vary the method, the Jacobian and the scaling
ModelCalls ==
    {[Default EXCEPT !.x0 = x00, !.method = me, !.jac = ja, !.init_jac = ij,
                     !.x_scale = xs] :
        x00 \in X0s, me \in {"dogleg", "subspace", "newton"},
        ja \in {"callable", "broyden", "none"}, ij \in {None, R(0), R(2)},
        xs \in {One, <<"jac">>}}

\* calls with a callback
CallbackCalls == {[Default EXCEPT !.x0 = x00, !.callback = TRUE] : x00 \in X0s}

\* the jac_recompute_interval options passed: numbers and lists of iterations
Intervals ==
    {ScalarInterval(0), ScalarInterval(2), ListInterval({0, 2}), ListInterval({1})}

\* the options dictionaries passed
OptionDicts ==
    {("max_nfev" :> k) : k \in {1, 2}}
    \cup {("max_ngev" :> k) : k \in {1, 2}}
    \cup {("max_njev" :> k) : k \in {0, 1}}
    \cup {("step_accept_threshold" :> t) : t \in {Rat(-1, 2), Zero, Rat(1, 2)}}
    \cup {("jac_recompute_interval" :> i) : i \in Intervals}
    \cup {("min_trust_radius" :> One), ("max_trust_radius" :> R(3)),
          ("initial_trust_radius" :> Rat(1, 2)), ("bogus" :> One)}

\* calls that pass options
OptionCalls ==
    {[Default EXCEPT !.x0 = x00, !.x_scale = xs, !.options = d] :
        x00 \in X0s, xs \in {One, <<"jac">>}, d \in OptionDicts}

\* calls on the linear problems fun(x) = A * x - b with the exact Jacobian A
LinearProblems == {<<R(1), R(2)>>, <<R(2), R(2)>>, <<R(2), R(3)>>}
LinearCalls ==
    {[Default EXCEPT !.x0 = x00, !.method = me, !.init_jac = ij, !.problem = pr] :
        x00 \in X0s, me \in {"dogleg", "subspace"}, ij \in {None, R(2)},
        pr \in LinearProblems}

\* calls that ask for Broyden's method, with and without a recompute interval
BroydenCalls ==
    {[Default EXCEPT !.x0 = x00, !.jac = "broyden", !.init_jac = ij, !.options = d] :
        x00 \in X0s, ij \in {None, R(2)},
        d \in {NoOptions} \cup {("jac_recompute_interval" :> i) : i \in Intervals}}

\* calls that stop on ftol alone, with a loose and a strict acceptance test
FtolCalls ==
    {[Default EXCEPT !.x0 = x00, !.ftol = ft, !.xtol = None, !.gtol = None,
                     !.init_jac = ij, !.options = d] :
        x00 \in X0s, ft \in {Tol, Rat(9, 10)}, ij \in {None, R(2)},
        d \in {NoOptions} \cup {("step_accept_threshold" :> t) : t \in {Zero, Rat(1, 2)}}}

\* calls with a finite maxiter, no tolerance, and an acceptance test that can
\* reject a step without the radius shrinking
StallCalls ==
    {[Default EXCEPT !.x0 = x00, !.ftol = None, !.xtol = None, !.gtol = None,
                     !.maxiter = mi, !.options = ("step_accept_threshold" :> Rat(1, 2))] :
        x00 \in X0s, mi \in {<<2>>, <<3>>}}

Calls ==
    BudgetCalls \cup ModelCalls \cup CallbackCalls \cup OptionCalls \cup LinearCalls
    \cup BroydenCalls \cup FtolCalls \cup StallCalls

InitState ==
    /\ pc = "start"
    /\ exception = "none"
    /\ set = NoSettings
    /\ x = Zero /\ f = Zero /\ g = Zero /\ cost = Zero
    /\ nfev = 0 /\ ngev = 0 /\ njev = 0 /\ iteration = 0
    /\ jac = QRJacobianInit(None, FALSE)
    /\ scale = One /\ scale_inv = One
    /\ g_norm = Zero /\ x_norm = Zero
    /\ step_norm = Inf /\ dg_norm = Inf /\ actual_reduction = Inf
    /\ ratio = One
    /\ trust_radius = Zero
    /\ step_h = Zero /\ hits_boundary = FALSE
    /\ x_new = Zero /\ f_new = Zero /\ cost_new = Zero
    /\ result = Unbound
    /\ funTab = NoOptions /\ jacTab = NoOptions
    /\ nsolve = 0
    /\ nupdate = 0
    /\ nrecompute = 0
    /\ ntrial = 0
    /\ naccept = 0
    /\ pass = NoPass

Init ==
    /\ cfg \in Calls
    /\ options = cfg.options
    /\ InitState
    /\ DerivIdle
    /\ IOIdle

Next ==
    \/ Start
    \/ LoopHead
    \/ SolveSubproblem
    \/ TrialStep
    \/ AcceptOrReject

Spec == Init /\ [][Next]_vars

\* the calls whose maxiter is finite and small enough for the model to follow
\* the run to its end
FiniteCalls == {c \in Calls : c.maxiter # None /\ MaxIter(c) < MaxEvals}

LiveInit ==
    /\ cfg \in FiniteCalls
    /\ options = cfg.options
    /\ InitState
    /\ DerivIdle
    /\ IOIdle

\* the positions of a call of least_squares
Pcs == {"start", "head", "solve", "trial", "decide", "done", "raised"}

\* the call is at a statement it can execute: it has neither returned nor
\* raised, and the model still follows it
Running == pc \notin {"done", "raised"} /\ ~(pc = "solve" /\ nfev >= MaxEvals)

\* a running call moves on to another statement.  Every step of Next changes
\* pc and Next is enabled exactly in the Running states, so under
\* [][Next]_vars the steps of Proceed are the steps of Next
Proceed == Running /\ pc' \in Pcs \ {pc}

\* least_squares is sequential code (def least_squares, the while loop of
\* lines 220-391): a call that can execute its next statement does so
LiveSpec == LiveInit /\ [][Next]_vars /\ WF_pc(Proceed)

\* ------------------------------------------------------------- the claims

\* the pass that just ended evaluated a trial point and rejected / accepted it
PassEnded == pc = "head" /\ pass # NoPass
PassRejected == PassEnded /\ RLe(ratio, set.step_accept_threshold)
PassAccepted == PassEnded /\ RLt(set.step_accept_threshold, ratio)

\* C1 as stated: in every loop pass an accepted step (ratio >
\* step_accept_threshold) commits a strictly smaller cost and a rejected step
\* leaves the cost as it was
C1_AcceptedStepDecreasesCost ==
    [][pc = "decide" =>
         IF RLt(set.step_accept_threshold, ratio)
         THEN RLt(cost', cost) ELSE cost' = cost]_vars

\* C1 amended: with step_accept_threshold >= 0, an accepted step commits a
\* strictly smaller cost, a rejected step leaves the cost as it was, and the
\* cost never increases from one step of the run to the next
C1_CostMonotoneForNonNegativeThreshold ==
    [][(pc # "start" /\ RLe(Zero, set.step_accept_threshold)) =>
         /\ RLe(cost', cost)
         /\ pc = "decide" =>
              IF RLt(set.step_accept_threshold, ratio)
              THEN RLt(cost', cost) ELSE cost' = cost]_vars

\* an accepted step was committed under a non-negative threshold, and an
\* earlier pass of the same run was rejected
C1_Witness ==
    /\ PassAccepted
    /\ RLe(Zero, set.step_accept_threshold)
    /\ RLt(cost, pass.cost)
    /\ nfev > iteration + 1

\* the radius update_tr_radius returns for the trial of the pass that just ended
PassRadius ==
    UpdateTrRadius(pass.trust_radius, actual_reduction,
        RSub(cost, EvaluateQuadraticForm(step_h, cost, g, jac, scale)),
        hits_boundary, set.max_trust_radius, set.min_trust_radius,
        set.tr_increase_threshold, set.tr_increase_ratio,
        set.tr_decrease_threshold, set.tr_decrease_ratio)[1]

\* C2 as stated: a pass whose trial step is rejected (ratio <=
\* step_accept_threshold) leaves x, f, g, cost, the derivative model, the
\* scale vector and the iteration counter as they were when the pass began,
\* and the radius is the one update_tr_radius computed in the pass
C2_RejectedPassChangesOnlyRadius ==
    PassRejected =>
        /\ x = pass.x /\ f = pass.f /\ g = pass.g /\ cost = pass.cost
        /\ jac = pass.jac
        /\ scale = pass.scale /\ scale_inv = pass.scale_inv
        /\ iteration = pass.iteration
        /\ trust_radius = PassRadius

\* the model and the scale a pass holds after its scheduled recompute
AfterRecompute(p) ==
    LET due == p.iteration \in set.jac_recompute_iters
        j1 == IF due THEN Recompute(p.jac, jacTab[p.x]) ELSE p.jac
    IN  [jac |-> j1,
         scale_inv |-> IF due /\ set.jac_scale THEN GetScale(j1, p.scale_inv)[2]
                       ELSE p.scale_inv]

\* C2 amended: a pass whose trial step is rejected leaves x, f, g, cost and
\* the iteration counter as they were when the pass began; the derivative
\* model and the scale vector are the ones the pass held after its scheduled
\* recompute at the head of the pass (unchanged when the iteration is not in
\* the recompute schedule); the radius is the one update_tr_radius computed
C2_RejectedPassKeepsIterate ==
    PassRejected =>
        /\ x = pass.x /\ f = pass.f /\ g = pass.g /\ cost = pass.cost
        /\ iteration = pass.iteration
        /\ jac = AfterRecompute(pass).jac
        /\ scale_inv = AfterRecompute(pass).scale_inv
        /\ scale = RDiv(One, scale_inv)
        /\ pass.iteration \notin set.jac_recompute_iters =>
             jac = pass.jac /\ scale = pass.scale /\ scale_inv = pass.scale_inv
        /\ trust_radius = PassRadius

\* a pass recomputed the Jacobian at its head, changed the model and the
\* scale by that, shrank the radius and rejected its step
C2_Witness ==
    /\ PassRejected
    /\ pass.iteration \in set.jac_recompute_iters
    /\ jac # pass.jac
    /\ scale # pass.scale
    /\ trust_radius # pass.trust_radius

\* C3: at every subproblem solve of a call that leaves the trust-region
\* options at their defaults, the trust radius is strictly positive and lies
\* in [min_trust_radius, max_trust_radius]
C3_RadiusWithinBounds ==
    (pc = "solve" /\ DOMAIN cfg.options \cap TrustKeys = {}) =>
        /\ RLt(Zero, trust_radius)
        /\ RLe(set.min_trust_radius, trust_radius)
        /\ RLe(trust_radius, set.max_trust_radius)

\* C4: every subproblem solve with a radius > 0 returns a step with
\* |step_h| <= radius, and |step_h| = radius exactly when hits_boundary is true
C4_StepWithinRadiusBoundaryIffEqual ==
    (pc = "trial" /\ RLt(Zero, trust_radius)) =>
        /\ RLe(RAbs(step_h), trust_radius)
        /\ (RAbs(step_h) = trust_radius) <=> hits_boundary

\* the call is one least_squares accepts: no ValueError is due, nor the
\* TypeError of line 151
ValidCall ==
    /\ ValidMethod(cfg)
    /\ ValidJac(cfg)
    /\ DOMAIN cfg.options \subseteq FirstKeys \cup TrustKeys
    /\ ~IntervalTypeError(RecomputeInterval(cfg, cfg.options))

\* the gradient norm at x0
G0Norm == RAbs(Grad(jacTab[cfg.x0], funTab[cfg.x0]))

C6_MaxiterZeroStopsAtFirstCheck ==
    (/\ pc # "start"
     /\ ValidCall
     /\ cfg.maxiter = <<0>>
     /\ DOMAIN cfg.options = {}
     /\ ~GtolSatisfied(G0Norm, cfg.gtol)) =>
        /\ pc \in {"head", "done"}
        /\ nsolve = 0
        /\ nfev = 1
        /\ pc = "done" =>
             /\ result.success = "False"
             /\ result.nit = 0
             /\ result.message = "maxiter"

\* a run with maxiter = 0 ended at its first check with the maxiter message
C6_Witness ==
    /\ pc = "done"
    /\ cfg.maxiter = <<0>>
    /\ DOMAIN cfg.options = {}
    /\ ~GtolSatisfied(G0Norm, cfg.gtol)
    /\ result.message = "maxiter"
    /\ result.nit = 0

\* the termination reasons a result can name
SuccessReasons == {"ftol", "xtol", "gtol"}
BudgetReasons == {"maxiter", "max_nfev", "max_ngev", "max_njev"}
Reasons == SuccessReasons \cup BudgetReasons \cup {"err", "callback"}

\* the conditions of check_termination that hold in the current state
HoldingReasons ==
    {m \in SuccessReasons \cup BudgetReasons :
        \/ m = "ftol" /\ FtolSatisfied(actual_reduction, cost, ratio, cfg.ftol)
        \/ m = "xtol" /\ XtolSatisfied(step_norm, x_norm, cfg.xtol)
        \/ m = "gtol" /\ GtolSatisfied(g_norm, cfg.gtol)
        \/ m = "maxiter" /\ Exceeds(iteration, set.maxiter)
        \/ m = "max_nfev" /\ Exceeds(nfev, set.max_nfev)
        \/ m = "max_ngev" /\ Exceeds(ngev, set.max_ngev)
        \/ m = "max_njev" /\ Exceeds(njev, set.max_njev)}

C8_BudgetExhaustionReturnsFailure ==
    /\ pc \in {"solve", "trial"} => HoldingReasons = {}
    /\ pc = "done" =>
         /\ exception = "none"
         /\ ~ENABLED Next
         /\ result.nfev = nfev /\ result.ngev = ngev /\ result.njev = njev
         /\ result.message \in BudgetReasons =>
              /\ result.success = "False"
              /\ result.message \in HoldingReasons
              /\ HoldingReasons \cap SuccessReasons = {}
         /\ (/\ result.message \notin {"err", "callback"}
             /\ HoldingReasons \cap SuccessReasons = {}) =>
              result.message \in BudgetReasons

\* a run ended on an exhausted evaluation budget after it had tried a step
C8_Witness ==
    /\ pc = "done"
    /\ result.message \in {"max_nfev", "max_ngev", "max_njev"}
    /\ result.success = "False"
    /\ nsolve > 0

\* C9 as stated: the result of a LinAlgError has success = False, the err
\* message, and x, cost, fun, grad and all the counters as they were when
\* the pass began
C9_ErrResultIsPassStart ==
    (pc = "done" /\ result.message = "err") =>
        /\ exception = "none"
        /\ result.success = "False"
        /\ result.x = pass.x /\ result.cost = pass.cost
        /\ result.fun = pass.f /\ result.grad = pass.g
        /\ result.nfev = pass.nfev /\ result.ngev = pass.ngev
        /\ result.njev = pass.njev
        /\ result.nit = pass.iteration

\* C9 amended: the result of a LinAlgError has success = False, the err
\* message, and x, cost, fun, grad, nfev, ngev and nit as they were when the
\* pass began; njev is one more than at the start of the pass when the pass
\* recomputed the Jacobian at its head, and the same otherwise; the solve is
\* the last thing the run does
C9_ErrResultCountsHeadRecompute ==
    (pc = "done" /\ result.message = "err") =>
        /\ exception = "none"
        /\ ~ENABLED Next
        /\ result.success = "False"
        /\ result.x = pass.x /\ result.cost = pass.cost
        /\ result.fun = pass.f /\ result.grad = pass.g
        /\ result.nfev = pass.nfev /\ result.ngev = pass.ngev
        /\ result.nit = pass.iteration
        /\ result.njev = IF pass.iteration \in set.jac_recompute_iters
                         THEN pass.njev + 1 ELSE pass.njev
        /\ nfev = pass.nfev /\ ngev = pass.ngev /\ njev = result.njev

\* a pass recomputed the Jacobian at its head, found it singular at the solve
\* and returned the err result, after an earlier pass had committed a step
C9_Witness ==
    /\ pc = "done"
    /\ result.message = "err"
    /\ pass.iteration \in set.jac_recompute_iters
    /\ result.njev = pass.njev + 1
    /\ result.nit > 0

\* the fields of a result record
ResultFields ==
    {"x", "success", "cost", "fun", "grad", "jac", "optimality", "nfev", "ngev",
     "njev", "nit", "message"}

\* C10: every returned result has all of the fields x, success, cost, fun,
\* grad, jac, optimality, nfev, ngev, njev, nit and message
C10_ResultFullyPopulated ==
    pc = "done" => ResultFields \subseteq DOMAIN result

\* C11: with a callback, the pass that accepts a step hands the committed x to
\* the callback and goes on to the next pass, or, when the callback returns a
\* true value, returns a result with success = None, the callback message and
\* x equal to the point just accepted; nothing is raised
C11_CallbackStopReturnsResult ==
    [][(pc = "decide" /\ cfg.callback /\ RLt(set.step_accept_threshold, ratio)) =>
         /\ exception' = "none"
         /\ pc' \in {"head", "done"}
         /\ x' = x_new
         /\ pc' = "done" =>
              /\ result'.success = "None"
              /\ result'.message = "callback"
              /\ result'.x = x_new]_vars

\* the call names a method, a jac or an option key least_squares does not know
BadArguments ==
    \/ cfg.method \notin {"dogleg", "subspace"}
    \/ cfg.jac \notin {"callable", "broyden"}
    \/ DOMAIN cfg.options \ (FirstKeys \cup TrustKeys) # {}

Minimizer == RDiv(cfg.problem[2], cfg.problem[1])

\* a linear problem with its exact Jacobian, solved by dogleg from an initial
\* radius above the norm of the Gauss-Newton step at x0
LinearDoglegCall ==
    /\ cfg.problem # None
    /\ cfg.method = "dogleg"
    /\ cfg.jac = "callable"
    /\ cfg.init_jac = None
    /\ DOMAIN cfg.options = {}
    /\ RLt(RAbs(RDiv(RSub(RMul(cfg.problem[1], cfg.x0), cfg.problem[2]),
                     RMul(cfg.problem[1], cfg.x_scale))),
           InitialTrustRadius(cfg.options, cfg.x0, RDiv(One, cfg.x_scale)))

\* C13: on a linear problem with exact Jacobian, dogleg and an initial radius
\* above the Gauss-Newton step norm, the iterate is the exact minimizer from
\* the first accepted iteration on
C13_LinearProblemOneIteration ==
    (pc # "start" /\ LinearDoglegCall /\ iteration >= 1) => x = Minimizer

\* C14: with x_scale 'auto' or 'jac', after every step of a run scale is
\* strictly positive, scale * scale_inv = 1, and scale_inv has not decreased
\* (the first get_scale, at the start, has no previous value to compare with)
C14_ScalePositiveAndMonotone ==
    [][JacScale(cfg) =>
         /\ RLt(Zero, scale')
         /\ RMul(scale', scale_inv') = One
         /\ pc # "start" => RLe(scale_inv, scale_inv')]_vars

\* under x_scale 'jac' a later get_scale met a model whose column norm is
\* below the previous scale_inv, and the maximum has kept scale_inv
C14_Witness ==
    /\ JacScale(cfg)
    /\ pass # NoPass
    /\ jac # pass.jac
    /\ jac.R # Zero
    /\ RLt(RAbs(jac.R), scale_inv)

\* C18: with a callable jac, init_jac = None and the default
\* jac_recompute_interval, every subproblem solve, the first included, is made
\* with a model equal to the exact Jacobian at the current iterate
C18_SolveUsesExactJacobian ==
    (/\ pc = "solve"
     /\ cfg.jac = "callable"
     /\ cfg.init_jac = None
     /\ "jac_recompute_interval" \notin DOMAIN cfg.options) =>
        GetMatrix(jac) = jacTab[x]

\* C19: the pass that accepts a step at iteration k calls jac.update exactly
\* when k + 1 is not in the recompute schedule, with the new and the old
\* point and residual; a pass that rejects its step, and every other step of
\* a run, calls it never
C19_UpdateUnlessRecomputeNext ==
    [][/\ (pc = "decide" /\ RLt(set.step_accept_threshold, ratio)) =>
            IF iteration + 1 \notin set.jac_recompute_iters
            THEN /\ nupdate' = nupdate + 1
                 /\ jac' = Update(jac, x_new, x, f_new, f, jacTab'[x_new])
            ELSE /\ nupdate' = nupdate
                 /\ jac' = jac
       /\ (pc # "decide" \/ RLe(ratio, set.step_accept_threshold)) =>
            nupdate' = nupdate]_vars

\* a run has accepted a step without an update (a recompute was due next),
\* accepted another with an update, and rejected a step
C19_Witness ==
    /\ pc = "head"
    /\ iteration >= 2
    /\ nupdate >= 1
    /\ nupdate < iteration
    /\ nfev > iteration + 1

\* ------------------------------------- CholeskyHessian (derivative.py)
\* For n = 1 the upper-triangular factor U is a single number; the object is
\* held by the matrix U^T U that get_matrix returns, so that a rank-1 downdate
\* that leaves no real factor shows as a negative value.

\* lines 95-104: min_curvature, by default 1e-8 or 0.2 by the strategy
SkipMinCurvature == Rat(1, 100000000)
DampMinCurvature == Rat(2, 10)
MinCurvature(exception_strategy, min_curvature) ==
    IF min_curvature # None THEN min_curvature
    ELSE IF exception_strategy = "skip_update" THEN SkipMinCurvature
    ELSE DampMinCurvature

\* make_spd(H, delta, tol) of utils.py: a value below tol is raised to delta
MakeSpd(H, delta, tol) == IF RLt(H, tol) THEN delta ELSE H

\* chol_U_update(U, u, alpha) of utils.py: the factor of U^T U + alpha u u^T
CholUUpdate(UtU, u, alpha) == RAdd(UtU, RMul(alpha, RMul(u, u)))

\* CholeskyHessian.__init__: init_hess is None, <<"auto">> or a matrix
CholeskyHessianInit(init_hess, hessfun, exception_strategy, min_curvature) ==
    LET mc == MinCurvature(exception_strategy, min_curvature)
        new == [UtU |-> One, initialized |-> TRUE, initialization |-> "eye",
                hessfun |-> hessfun, exception_strategy |-> exception_strategy,
                min_curvature |-> mc]
    IN  IF init_hess = None /\ ~hessfun THEN new
        ELSE IF init_hess = None /\ hessfun
        THEN [new EXCEPT !.initialized = FALSE, !.initialization = "hessfun"]
        ELSE IF init_hess = <<"auto">>
        THEN [new EXCEPT !.initialized = FALSE, !.initialization = "auto"]
        ELSE [new EXCEPT !.UtU = MakeSpd(init_hess, mc, Rat(1, 10)),
                         !.initialization = "init_hess"]

\* CholeskyHessian.get_matrix: U^T U
HessGetMatrix(h) == h.UtU

\* CholeskyHessian.recompute, H being what hessfun returned at x
HessRecompute(h, H) == [h EXCEPT !.UtU = MakeSpd(H, h.min_curvature, Rat(1, 10))]

\* CholeskyHessian._auto_scale_init: U * sqrt(scale)
AutoScaleInit(h, delta_x, delta_grad) ==
    LET s_norm2 == RMul(delta_x, delta_x)
        y_norm2 == RMul(delta_grad, delta_grad)
        ys == RAbs(RMul(delta_grad, delta_x))
        sc == IF ys = Zero \/ y_norm2 = Zero \/ s_norm2 = Zero THEN One
              ELSE RDiv(y_norm2, ys)
    IN  [h EXCEPT !.UtU = RMul(h.UtU, sc), !.initialized = TRUE]

\* the BFGS update without the curvature condition
BfgsUpdate_NoCurvatureCondition(h, s, y) ==
    IF s = Zero \/ y = Zero THEN h
    ELSE LET sy == RMul(s, y)
             Bs == RMul(h.UtU, s)
             sBs == RMul(Bs, s)
             U1 == CholUUpdate(h.UtU, y, RDiv(One, sy))
         IN  [h EXCEPT !.UtU = CholUUpdate(U1, Bs, RNeg(RDiv(One, sBs)))]

\* line 218: the curvature condition is violated
CurvatureViolated(min_curvature, sy, sBs) == RLe(sy, RMul(min_curvature, sBs))

\* the damping factor with the sign of sy / sBs turned round
UpdateFactor_PlusRatio(min_curvature, sy, sBs) ==
    RDiv(RSub(One, min_curvature), RAdd(One, RDiv(sy, sBs)))

\* line 225: update_factor = (1 - min_curvature) / (1 - sy / sBs)
UpdateFactor(min_curvature, sy, sBs) ==
    RDiv(RSub(One, min_curvature), RSub(One, RDiv(sy, sBs)))

\* line 226: y = update_factor * y + (1 - update_factor) * Bs
DampedY(update_factor, y, Bs) ==
    RAdd(RMul(update_factor, y), RMul(RSub(One, update_factor), Bs))

\* the locals of _bfgs_update(s, y) on model h when it reaches line 229
BfgsLocals(h, s, y) ==
    LET sy0 == RMul(s, y)
        Bs == RMul(h.UtU, s)
        sBs == RMul(Bs, s)
        violated == CurvatureViolated(h.min_curvature, sy0, sBs)
        damped == violated /\ h.exception_strategy = "damp_update"
        factor == UpdateFactor(h.min_curvature, sy0, sBs)
        yd == IF damped THEN DampedY(factor, y, Bs) ELSE y
    IN  [violated |-> violated, damped |-> damped, sy0 |-> sy0, Bs |-> Bs,
         sBs |-> sBs, min_curvature |-> h.min_curvature,
         divisor |-> RSub(One, RDiv(sy0, sBs)),
         update_factor |-> IF damped THEN factor ELSE One,
         y |-> yd, sy |-> RMul(s, yd)]

\* CholeskyHessian._bfgs_update
BfgsUpdate(h, s, y) ==
    IF s = Zero \/ y = Zero THEN h
    ELSE LET l == BfgsLocals(h, s, y)
             U1 == CholUUpdate(h.UtU, l.y, RDiv(One, l.sy))
         IN  IF l.violated /\ h.exception_strategy = "skip_update" THEN h
             ELSE [h EXCEPT !.UtU = CholUUpdate(U1, l.Bs, RNeg(RDiv(One, l.sBs)))]

\* does CholeskyHessian.update call hessfun (through recompute)?
HessUpdateRecomputes(h, delta_x, delta_grad) ==
    /\ delta_x # Zero
    /\ delta_grad # Zero
    /\ ~h.initialized
    /\ h.initialization = "hessfun"

\* lines 194-198: the model _bfgs_update is called on, H being what hessfun
\* returns at x_new if it is called
BeforeBfgs(h, delta_x, delta_grad, H) ==
    IF h.initialized THEN h
    ELSE IF h.initialization = "auto" THEN AutoScaleInit(h, delta_x, delta_grad)
    ELSE IF h.initialization = "hessfun" THEN HessRecompute(h, H)
    ELSE h

\* CholeskyHessian.update, H being what hessfun returns at x_new if it is called
HessUpdate(h, xn, xo, gn, go, H) ==
    LET delta_x == RSub(xn, xo)
        delta_grad == RSub(gn, go)
    IN  IF delta_x = Zero \/ delta_grad = Zero THEN h
        ELSE BfgsUpdate(BeforeBfgs(h, delta_x, delta_grad, H), delta_x, delta_grad)

\* ------------------------------------ a derivative model used on its own

\* the model takes at most MaxOps operations
MaxOps == 2

\* the points, the residuals/gradients and the Hessians handed to the model
PVals == {R(0), R(1)}
YVals == {R(-1), R(0), R(1)}
HVals == {R(-1), R(2)}

\* the models built: every initialization strategy of either class
QRModels ==
    {[kind |-> "qr", obj |-> QRJacobianInit(ij, FALSE)] :
        ij \in {None, <<"auto">>, R(2)}}
    \cup {[kind |-> "qr", obj |-> QRJacobianInit(ij, TRUE)] : ij \in {None, R(2)}}
CholModels ==
    {[kind |-> "chol", obj |-> CholeskyHessianInit(ih, hf, "damp_update", mc)] :
        ih \in {None, <<"auto">>, R(2), R(-1)}, hf \in BOOLEAN,
        mc \in {None, Rat(1, 2)}}
    \cup {[kind |-> "chol", obj |-> CholeskyHessianInit(ih, hf, "skip_update", mc)] :
        ih \in {None, <<"auto">>, R(2)}, hf \in BOOLEAN, mc \in {Rat(1, 2)}}
    \cup {[kind |-> "chol", obj |-> CholeskyHessianInit(ih, FALSE, "skip_update", None)] :
        ih \in {None, <<"auto">>, R(2)}}

UpdateOp(xn, xo, yn, yo) ==
    [op |-> "update", x_new |-> xn, x_old |-> xo, y_new |-> yn, y_old |-> yo]
RecomputeOp == [op |-> "recompute"]

\* an update of a CholeskyHessian, with the locals of the _bfgs_update it
\* reached (none when update returned at a zero difference)
HessUpdateOp(h, xn, xo, gn, go, H) ==
    LET delta_x == RSub(xn, xo)
        delta_grad == RSub(gn, go)
    IN  [op |-> "update", x_new |-> xn, x_old |-> xo, y_new |-> gn, y_old |-> go,
         bfgs |-> IF delta_x = Zero \/ delta_grad = Zero THEN None
                  ELSE <<BfgsLocals(BeforeBfgs(h, delta_x, delta_grad, H),
                                    delta_x, delta_grad)>>]

\* QRJacobian.update(x_new, x_old, f_new, f_old)
QRJacobianUpdate ==
    /\ dm.kind = "qr"
    /\ nops < MaxOps
    /\ \E xn \in PVals, xo \in PVals, fn \in YVals, fo \in YVals, J \in JVals :
        /\ dm' = [dm EXCEPT !.obj = Update(dm.obj, xn, xo, fn, fo, J)]
        /\ din' = UpdateOp(xn, xo, fn, fo)
        /\ ext' = IF UpdateRecomputes(dm.obj, RSub(xn, xo), RSub(fn, fo))
                  THEN ext + 1 ELSE ext
    /\ nops' = nops + 1
    /\ UNCHANGED <<lvars, iovars>>

\* QRJacobian.recompute(x), of a model that has a Jacobian function
QRJacobianRecompute ==
    /\ dm.kind = "qr"
    /\ dm.obj.jacfun
    /\ nops < MaxOps
    /\ \E J \in JVals : dm' = [dm EXCEPT !.obj = Recompute(dm.obj, J)]
    /\ din' = RecomputeOp
    /\ ext' = ext + 1
    /\ nops' = nops + 1
    /\ UNCHANGED <<lvars, iovars>>

\* CholeskyHessian.update(x_new, x_old, grad_new, grad_old)
CholeskyHessianUpdate ==
    /\ dm.kind = "chol"
    /\ nops < MaxOps
    /\ \E xn \in PVals, xo \in PVals, gn \in YVals, go \in YVals, H \in HVals :
        /\ dm' = [dm EXCEPT !.obj = HessUpdate(dm.obj, xn, xo, gn, go, H)]
        /\ din' = HessUpdateOp(dm.obj, xn, xo, gn, go, H)
        /\ ext' = IF HessUpdateRecomputes(dm.obj, RSub(xn, xo), RSub(gn, go))
                  THEN ext + 1 ELSE ext
    /\ nops' = nops + 1
    /\ UNCHANGED <<lvars, iovars>>

\* CholeskyHessian.recompute(x), of a model that has a Hessian function
CholeskyHessianRecompute ==
    /\ dm.kind = "chol"
    /\ dm.obj.hessfun
    /\ nops < MaxOps
    /\ \E H \in HVals : dm' = [dm EXCEPT !.obj = HessRecompute(dm.obj, H)]
    /\ din' = RecomputeOp
    /\ ext' = ext + 1
    /\ nops' = nops + 1
    /\ UNCHANGED <<lvars, iovars>>

\* no least_squares run is under way
RunIdle ==
    /\ cfg = Default
    /\ options = cfg.options
    /\ InitState

DerivInit ==
    /\ RunIdle
    /\ IOIdle
    /\ dm \in QRModels \cup CholModels
    /\ din = NoOp
    /\ ext = 0
    /\ nops = 0

DerivNext ==
    \/ QRJacobianUpdate
    \/ QRJacobianRecompute
    \/ CholeskyHessianUpdate
    \/ CholeskyHessianRecompute

DerivSpec == DerivInit /\ [][DerivNext]_vars

\* the last operation was an update with x_new = x_old or y_new = y_old
NoOpUpdate(op) ==
    /\ op.op = "update"
    /\ op.x_new = op.x_old \/ op.y_new = op.y_old

\* C15: an update with x_new = x_old or with y_new = y_old leaves the factors
\* and the initialized flag of a QRJacobian and of a CholeskyHessian as they
\* were and calls no Jacobian or Hessian function, whatever the initialization
C15_UpdateWithZeroDeltaIsNoOp ==
    [][NoOpUpdate(din') => (dm' = dm /\ ext' = ext)]_vars

\* a model whose initialization is deferred to its function has taken an
\* update with a zero difference, after an update that changed it
C15_Witness ==
    /\ NoOpUpdate(din)
    /\ nops = 2
    /\ ~dm.obj.initialized
    /\ dm \notin QRModels \cup CholModels

\* C16: after every update of a CholeskyHessian, whatever the inputs, the
\* strategy and the initialization, get_matrix() is positive semi-definite
\* (for n = 1: not negative)
C16_HessianPositiveSemiDefinite ==
    (dm.kind = "chol" /\ din.op = "update") => RLe(Zero, HessGetMatrix(dm.obj))

\* the second operation on a Hessian model was an update whose curvature
\* condition failed (s.y <= -1), and the matrix, no longer the identity, is
\* still positive
C16_Witness ==
    /\ dm.kind = "chol"
    /\ din.op = "update"
    /\ nops = 2
    /\ RLe(RMul(RSub(din.x_new, din.x_old), RSub(din.y_new, din.y_old)), R(-1))
    /\ dm.obj.initialization \in {"hessfun", "auto", "init_hess"}
    /\ RLt(Zero, HessGetMatrix(dm.obj))
    /\ HessGetMatrix(dm.obj) # One

\* the operation applied is a recompute or an update with nonzero differences
RealOperation(op) ==
    \/ op.op = "recompute"
    \/ op.op = "update" /\ op.x_new # op.x_old /\ op.y_new # op.y_old

\* C20: for both models and every initialization, the initialized flag is
\* true after a recompute and after an update with nonzero differences, and
\* once true it stays true
C20_InitializedAfterFirstUse ==
    [][/\ RealOperation(din') => dm'.obj.initialized
       /\ dm.obj.initialized => dm'.obj.initialized]_vars

\* --------------------------------------------------- IO (io/core_io.py)

\* an object takes at most MaxCalls calls of close() and __del__
MaxCalls == 2

\* the readers and writers, each with the one file it is built on
IOs == {"reader", "writer"}

\* what __init__ is given: a file path, an open file object or something else
Targets == {"path", "file", "other"}

\* an object before __init__, and the file it will meet: a file object given
\* by the caller is open, a path is not opened yet
NewIO(target) ==
    [target |-> target, built |-> FALSE, close_base |-> FALSE,
     error |-> "none", calls |-> 0]
NewFile(target) == [open |-> target = "file", io_closes |-> 0]

\* IO.resolve_base: <<object, file>>
ResolveBase(io, file) ==
    IF io.target = "file"
    THEN <<[io EXCEPT !.built = TRUE, !.close_base = FALSE], file>>
    ELSE IF io.target = "path"
    THEN <<[io EXCEPT !.built = TRUE, !.close_base = TRUE],
           [file EXCEPT !.open = TRUE]>>
    ELSE <<[io EXCEPT !.error = "SyntaxError"], file>>

\* close() that leaves _close_base_ set
Close_KeepsFlag(io, file) ==
    IF io.close_base
    THEN <<[io EXCEPT !.calls = @ + 1],
           [file EXCEPT !.open = FALSE, !.io_closes = @ + 1]>>
    ELSE <<[io EXCEPT !.calls = @ + 1], file>>

\* IO.close: <<object, file>>
Close(io, file) ==
    IF io.close_base
    THEN <<[io EXCEPT !.close_base = FALSE, !.calls = @ + 1],
           [file EXCEPT !.open = FALSE, !.io_closes = @ + 1]>>
    ELSE <<[io EXCEPT !.calls = @ + 1], file>>

\* IO.__del__
Del(io, file) == Close(io, file)

\* IO.__init__
IONew ==
    /\ \E o \in DOMAIN ios :
        /\ ~ios[o].built
        /\ ios[o].error = "none"
        /\ ios' = [ios EXCEPT ![o] = ResolveBase(ios[o], files[o])[1]]
        /\ files' = [files EXCEPT ![o] = ResolveBase(ios[o], files[o])[2]]
    /\ UNCHANGED <<lvars, dvars>>

\* close() on a built object
IOClose ==
    /\ \E o \in DOMAIN ios :
        /\ ios[o].built
        /\ ios[o].calls < MaxCalls
        /\ ios' = [ios EXCEPT ![o] = Close(ios[o], files[o])[1]]
        /\ files' = [files EXCEPT ![o] = Close(ios[o], files[o])[2]]
    /\ UNCHANGED <<lvars, dvars>>

\* __del__ on a built object (garbage collection or an explicit call)
IODel ==
    /\ \E o \in DOMAIN ios :
        /\ ios[o].built
        /\ ios[o].calls < MaxCalls
        /\ ios' = [ios EXCEPT ![o] = Del(ios[o], files[o])[1]]
        /\ files' = [files EXCEPT ![o] = Del(ios[o], files[o])[2]]
    /\ UNCHANGED <<lvars, dvars>>

\* the caller closes the file object it had handed to the reader/writer
CallerCloses ==
    /\ \E o \in DOMAIN ios :
        /\ ios[o].target = "file"
        /\ files[o].open
        /\ files' = [files EXCEPT ![o].open = FALSE]
    /\ UNCHANGED <<ios, lvars, dvars>>

IOInit ==
    /\ RunIdle
    /\ DerivIdle
    /\ \E t \in [IOs -> Targets] :
        /\ ios = [o \in IOs |-> NewIO(t[o])]
        /\ files = [o \in IOs |-> NewFile(t[o])]

IONext ==
    \/ IONew
    \/ IOClose
    \/ IODel
    \/ CallerCloses

IOSpec == IOInit /\ [][IONext]_vars

\* C17: a reader/writer built from a path has _close_base_ true until its
\* first close() or __del__ and false afterwards, and has closed its base
\* exactly once from then on; one built from an open file object has
\* _close_base_ false throughout and never closes the file; so a base is
\* closed by its reader/writer, and at most once, only when that opened it
C17_ClosesBaseIffOpenedIt ==
    \A o \in DOMAIN ios :
        /\ files[o].io_closes <= 1
        /\ files[o].io_closes = 1 => ios[o].target = "path"
        /\ (ios[o].built /\ ios[o].target = "path") =>
              /\ ios[o].close_base <=> ios[o].calls = 0
              /\ files[o].open <=> ios[o].calls = 0
              /\ files[o].io_closes = IF ios[o].calls = 0 THEN 0 ELSE 1
        /\ (ios[o].built /\ ios[o].target = "file") =>
              /\ ~ios[o].close_base
              /\ files[o].io_closes = 0

\* a reader built from a path has been closed twice, and a writer built from
\* an open file has been closed while the caller's file is still open
C17_Witness ==
    /\ DOMAIN ios = IOs
    /\ ios["reader"].target = "path"
    /\ ios["reader"].calls = 2
    /\ files["reader"].io_closes = 1
    /\ ios["writer"].target = "file"
    /\ ios["writer"].calls >= 1
    /\ files["writer"].open

\* the last operation was a CholeskyHessian update whose _bfgs_update damped y
DampedUpdate ==
    /\ dm.kind = "chol"
    /\ din.op = "update"
    /\ din.bfgs # None
    /\ din.bfgs[1].damped

\* C21: in _bfgs_update with the damp_update strategy, whenever the curvature
\* check s.y <= min_curvature * s.H.s fires with s.H.s > 0 and
\* 0 < min_curvature < 1, the divisor 1 - s.y / s.H.s is not zero, the blend
\* factor lies in [0, 1] and the damped y' has s.y' = min_curvature * s.H.s
C21_DampedCurvatureExact ==
    (/\ DampedUpdate
     /\ RLt(Zero, din.bfgs[1].sBs)
     /\ RLt(Zero, din.bfgs[1].min_curvature)
     /\ RLt(din.bfgs[1].min_curvature, One)) =>
        /\ din.bfgs[1].divisor # Zero
        /\ RLe(Zero, din.bfgs[1].update_factor)
        /\ RLe(din.bfgs[1].update_factor, One)
        /\ din.bfgs[1].sy = RMul(din.bfgs[1].min_curvature, din.bfgs[1].sBs)

\* an update was damped with a blend factor strictly between 0 and 1, on a
\* model that an earlier operation had changed
C21_Witness ==
    /\ DampedUpdate
    /\ nops = 2
    /\ RLt(Zero, din.bfgs[1].sBs)
    /\ RLt(Zero, din.bfgs[1].min_curvature)
    /\ RLt(din.bfgs[1].min_curvature, One)
    /\ RLt(Zero, din.bfgs[1].update_factor)
    /\ RLt(din.bfgs[1].update_factor, One)
    /\ din.bfgs[1].sBs # RMul(RSub(din.x_new, din.x_old), RSub(din.x_new, din.x_old))

\* a Broyden run has an empty recompute schedule and has recomputed nothing
BroydenNeverRecomputes ==
    (cfg.jac = "broyden" /\ pc # "start") =>
        /\ nrecompute = 0
        /\ njev = 0
        /\ pc # "raised" => set.jac_recompute_iters = {}
        /\ pc = "done" => result.njev = 0

\* a step of a Broyden run that changes the model is an accepted step, and
\* the change is the Broyden update of line 360
BroydenModelChangesByUpdateOnly ==
    (cfg.jac = "broyden" /\ pc # "start" /\ jac' # jac) =>
        /\ pc = "decide"
        /\ StepAccepted(ratio, set.step_accept_threshold)
        /\ jac' = BroydenUpdate(jac, RSub(x_new, x), RSub(f_new, f))

\* C22: with jac = 'broyden', whatever jac_recompute_interval is (absent, a
\* positive number, zero or a list of iterations), the model's recompute is
\* never invoked and njev stays 0, also in the returned result; the model
\* changes only by Broyden updates on accepted steps
C22_BroydenNeverRecomputes ==
    []BroydenNeverRecomputes /\ [][BroydenModelChangesByUpdateOnly]_vars

\* a Broyden run given a recompute interval returned after an accepted step
\* that updated the model
C22_Witness ==
    /\ cfg.jac = "broyden"
    /\ "jac_recompute_interval" \in DOMAIN cfg.options
    /\ pc = "done"
    /\ result.nit >= 1
    /\ nupdate >= 1
    /\ GetMatrix(jac) # GetMatrix(BuildJac(cfg))
    /\ result.njev = 0

\* C23: a run reports success on the ftol criterion only if its most recent
\* trial step was accepted (ratio > step_accept_threshold)
C23_FtolSuccessOnlyAfterAcceptedStep ==
    (pc = "done" /\ result.success = "True" /\ result.message = "ftol") =>
        /\ nfev > 1
        /\ StepAccepted(ratio, set.step_accept_threshold)

\* C25: at every termination check nit is the number of accepted steps, nfev
\* is 1 plus the number of trial points evaluated and (geodesic acceleration
\* being off) ngev is 1 plus the number of accepted steps; so every result
\* returned from the termination check has nit <= nfev - 1 and ngev = nit + 1
C25_CountersMatchHistory ==
    /\ pc = "head" =>
          /\ iteration = naccept
          /\ nfev = 1 + ntrial
          /\ ngev = 1 + naccept
    /\ (pc = "done" /\ result.message \in SuccessReasons \cup BudgetReasons) =>
          /\ result.nit = naccept
          /\ result.nfev = 1 + ntrial
          /\ result.nit <= result.nfev - 1
          /\ result.ngev = result.nit + 1

\* a termination check returned a result after an accepted and a rejected step
C25_Witness ==
    /\ pc = "done"
    /\ result.message \in SuccessReasons \cup BudgetReasons
    /\ naccept >= 1
    /\ ntrial > naccept
    /\ result.nit = naccept
    /\ result.ngev = naccept + 1

\* C26: in every result of a run with a callable jac, njev is the number of
\* calls the run made of the external jac function
C26_NjevCountsJacCalls ==
    (pc = "done" /\ cfg.jac = "callable") => result.njev = nrecompute

\* C27: over a run the model's recompute is invoked at most once for each
\* iteration index of the schedule: a loop pass that recomputes the Jacobian
\* is the first pass of its iteration, also after a rejected step
C27_RecomputeOncePerIteration ==
    [][(pc = "head" /\ nrecompute' = nrecompute + 1) =>
         (pass = NoPass \/ pass.iteration # iteration)]_vars

\* C28: whatever step_accept_threshold, tr_decrease_threshold and
\* min_trust_radius are, after a pass whose trial step was rejected the
\* trust radius is strictly smaller than the one the pass solved with
C28_RejectedStepShrinksRadius ==
    PassRejected => RLt(trust_radius, pass.trust_radius)

\* the call gives a finite maxiter that the model follows to its end and
\* leaves max_nfev, max_ngev and max_njev at their defaults
FiniteMaxiterDefaultBudgets ==
    /\ cfg.maxiter # None
    /\ MaxIter(cfg) < MaxEvals
    /\ DOMAIN cfg.options \cap {"max_nfev", "max_ngev", "max_njev"} = {}

\* the run has returned or raised
RunEnded == pc \in {"done", "raised"}

\* every pass that went beyond the termination check evaluated fun once, and
\* no pass goes beyond it once nfev has reached the budget
PassesWithinNfevBudget ==
    (FiniteMaxiterDefaultBudgets /\ pc \in {"head", "solve", "trial", "decide", "done"}) =>
        /\ set.max_nfev = MaxIter(cfg)
        /\ nfev = 1 + ntrial
        /\ nsolve <= ntrial + 1
        /\ pc \in {"solve", "trial"} => nfev < set.max_nfev
        /\ ntrial < IF set.max_nfev > 1 THEN set.max_nfev ELSE 1

\* C29: with a finite maxiter and the evaluation budgets at their defaults,
\* whatever fun and grad return (also when every trial step is rejected),
\* every loop pass ends the run or evaluates fun exactly once, the passes
\* are bounded by the nfev budget, and the run eventually ends
C29_RunTerminatesWithinBudget ==
    []PassesWithinNfevBudget /\ (FiniteMaxiterDefaultBudgets ~> RunEnded)

\* a run with maxiter = 3 whose two trial steps were rejected without the
\* radius shrinking has ended on the nfev budget
C29_Witness ==
    /\ FiniteMaxiterDefaultBudgets
    /\ cfg.maxiter = <<3>>
    /\ pc = "done"
    /\ result.message = "max_nfev"
    /\ ntrial = 2
    /\ naccept = 0
    /\ trust_radius = InitialTrustRadius(cfg.options, cfg.x0, One)

\* the settings a second call given the same dictionary object would run with
SecondCallSettings == Settings(cfg, options, cfg.x0, InitialScale(cfg, BuildJac(cfg))[2])

\* C30: least_squares leaves the caller's options dictionary as it was
\* passed, with the same keys and values, so a second call given the same
\* dictionary runs with the settings of the first
C30_OptionsDictionaryUnchanged ==
    /\ pc # "start" => options = cfg.options
    /\ pc = "done" => SecondCallSettings = set

====
